---- MODULE Spec2Model ----
(***************************************************************************)
(* The favicon pipeline of process_favicons.py: process_favicon loads an   *)
(* image, detects the content bounds, crops, pads by 3%, squares the       *)
(* canvas, assigns a circular mask as alpha, and writes the full-size      *)
(* artifact, one artifact per size and (for favicon_dark) the ICO bundle;  *)
(* main calls it for the dark and then for the light input.                *)
(*                                                                         *)
(* A pixel is a tuple <<l, a>>: its luminance (what convert('L') yields)   *)
(* and its alpha.  A file of a mode without alpha holds pixels <<l>>.      *)
(* An image is [w, h, px] with px a function on <<x, y>>.                  *)
(***************************************************************************)
EXTENDS Integers, Sequences, FiniteSets

VARIABLES
    files,       \* the input files: path -> [ok, mode, w, h, px]
    failWrites,  \* names of the artifacts whose write fails (disk, permissions)
    mainpc,      \* position of main: "dark", "light", "done", "crashed"; "none" = no main
    pc,          \* position of process_favicon
    args,        \* [path, base, sizes] of the running call of process_favicon
    img,         \* the image opened and converted to RGBA
    content,     \* img after the crop step (the image that enters the padding step)
    geo,         \* locals of process_favicon: detection and geometry
    square,      \* square_img
    output,      \* output
    i,           \* index of the size loop, 1-based
    written,     \* the artifacts written, in the order of the writes
    attempted,   \* names of the artifacts whose write was attempted by the running call
    exc          \* exception that left process_favicon, "none" if none

vars == <<files, failWrites, mainpc, pc, args, img, content, geo, square, output, i,
          written, attempted, exc>>

----------------------------------------------------------------------------
(* Bounds of the model *)

MaxW == 3          \* widest pixel grid of the scan inputs
MaxH == 3          \* tallest pixel grid of the scan inputs
MaxUniform == 36   \* largest side of a uniform input
MaxPixels == 72    \* most pixels of a uniform input
MaxDim == 70       \* largest side entering the padding step (geometry)
MaxCells == 9      \* most pixels of a scan input

----------------------------------------------------------------------------
(* int(width * 0.03): the product is an IEEE double, then truncated.       *)

\* The 53-bit significand of the double 0.03, least significant bit first:
\* 0.03 = 0x1EB851EB851EB8 * 2^-58.
PaddingPercentBits ==
    <<0,0,0,1,1,1,0,1,0,1,1,1,1,0,0,0,1,0,1,0,0,0,0,1,1,1,0,1,0,1,1,1,1,
      0,0,0,1,0,1,0,0,0,0,1,1,1,0,1,0,1,1,1,1>>
PaddingPercentExp == 58
DoubleBits == 53

RECURSIVE MulBits(_, _, _, _)
\* The bits of k * m, from bit idx of m on, with the carry so far.
MulBits(m, k, idx, carry) ==
    IF idx > Len(m)
    THEN IF carry = 0 THEN <<>>
         ELSE <<carry % 2>> \o MulBits(m, k, idx, carry \div 2)
    ELSE LET v == k * m[idx] + carry
         IN  <<v % 2>> \o MulBits(m, k, idx + 1, v \div 2)

RECURSIVE BitsToInt(_)
BitsToInt(b) == IF b = <<>> THEN 0 ELSE b[1] + 2 * BitsToInt(Tail(b))

RECURSIVE IncBits(_)
IncBits(b) ==
    IF b = <<>> THEN <<1>>
    ELSE IF b[1] = 0 THEN <<1>> \o Tail(b)
    ELSE <<0>> \o IncBits(Tail(b))

\* Round the exact product p (bits) to 53 significant bits, ties to even:
\* [m, d] stands for m * 2^d.
RoundToDouble(p) ==
    LET n == Len(p)
        d == IF n > DoubleBits THEN n - DoubleBits ELSE 0
        q == SubSeq(p, d + 1, n)
        half == d >= 1 /\ p[d] = 1
        sticky == \E j \in 1..(d - 1) : p[j] = 1
        up == half /\ (sticky \/ q[1] = 1)
    IN  [m |-> IF up THEN IncBits(q) ELSE q, d |-> d]

\* int(x) of the double m * 2^(d - PaddingPercentExp), which is not negative.
TruncToInt(r) ==
    LET k == PaddingPercentExp - r.d
    IN  BitsToInt(SubSeq(r.m, k + 1, Len(r.m)))

\* A variant that rounds to the nearest integer where the code truncates.
PaddingRounded(width) == (3 * width + 50) \div 100

\* Lines 83-84: int(width * padding_percent)
PaddingOf(width) == TruncToInt(RoundToDouble(MulBits(PaddingPercentBits, width, 1, 0)))

Max(a, b) == IF a >= b THEN a ELSE b
Min(a, b) == IF a <= b THEN a ELSE b

\* Lines 87-89: the padded canvas and where the image is pasted on it.
PadGeometry(width, height, padding_x, padding_y) ==
    [padding_x |-> padding_x, padding_y |-> padding_y,
     new_w |-> width + 2 * padding_x, new_h |-> height + 2 * padding_y]

\* Lines 82-89
Padded(width, height) == PadGeometry(width, height, PaddingOf(width), PaddingOf(height))

\* A variant that rounds the centring offsets up where the code rounds down.
SquareGeometryCeil(pw, ph, max_dim) ==
    [max_dim |-> max_dim,
     paste_x |-> (max_dim - pw + 1) \div 2,
     paste_y |-> (max_dim - ph + 1) \div 2]

\* Lines 96-99: the square canvas and where the padded image is pasted on it.
SquareGeometry(pw, ph, max_dim) ==
    [max_dim |-> max_dim,
     paste_x |-> (max_dim - pw) \div 2,
     paste_y |-> (max_dim - ph) \div 2]

\* Lines 93-99
Squared(pw, ph) == SquareGeometry(pw, ph, Max(pw, ph))

----------------------------------------------------------------------------
(* Images *)

Coords(w, h) == (0..(w - 1)) \X (0..(h - 1))

NoImage == [w |-> 0, h |-> 0, px |-> <<>>]

\* Image.new(mode, (w, h), fill)
NewImage(w, h, fill) == [w |-> w, h |-> h, px |-> [p \in Coords(w, h) |-> fill]]

\* dst.paste(src, (ox, oy)): the pixels of src replace those of dst, alpha included.
Paste(dst, src, ox, oy) ==
    [dst EXCEPT !.px =
        [p \in Coords(dst.w, dst.h) |->
            IF /\ p[1] >= ox /\ p[1] < ox + src.w
               /\ p[2] >= oy /\ p[2] < oy + src.h
            THEN src.px[<<p[1] - ox, p[2] - oy>>]
            ELSE dst.px[p]]]

\* im.crop((x0, y0, x1, y1)): x1 and y1 are exclusive.
Crop(im, x0, y0, x1, y1) ==
    [w |-> x1 - x0, h |-> y1 - y0,
     px |-> [p \in Coords(x1 - x0, y1 - y0) |-> im.px[<<p[1] + x0, p[2] + y0>>]]]

\* Lines 27-28: img.convert('RGBA') gives a file without alpha the alpha 255.
ConvertRGBA(f) ==
    [w |-> f.w, h |-> f.h,
     px |-> [p \in Coords(f.w, f.h) |->
                IF f.mode = "RGBA" THEN f.px[p] ELSE <<f.px[p][1], 255>>]]

\* Lines 32-33: gray = img.convert('L'); pixels = gray.load()
Gray(im) == [p \in Coords(im.w, im.h) |-> im.px[p][1]]

----------------------------------------------------------------------------
(* Content detection, lines 36-70 *)

PolaritySplit == 200
LightThreshold == 250
DarkThreshold == 50

RECURSIVE SumRow(_, _, _, _)
SumRow(pixels, width, y, x) ==
    IF x >= width THEN 0 ELSE pixels[<<x, y>>] + SumRow(pixels, width, y, x + 1)

RECURSIVE SumRows(_, _, _, _)
\* Line 37: sum(pixels[x, y] for y in range(height) for x in range(width))
SumRows(pixels, width, height, y) ==
    IF y >= height THEN 0
    ELSE SumRow(pixels, width, y, 0) + SumRows(pixels, width, height, y + 1)

\* Lines 38 and 47: total / (width * height) > 200.  The quotient is a double;
\* it exceeds 200 exactly when total exceeds 200 * width * height (for any image
\* of fewer than 2^45 pixels the rounding cannot reach 200).
LightBackground(pixels, width, height) ==
    SumRows(pixels, width, height, 0) > PolaritySplit * (width * height)

\* Line 64
IsContent(pixel_val, is_light_bg) ==
    IF is_light_bg THEN pixel_val < LightThreshold ELSE pixel_val > DarkThreshold

\* A variant that starts every bound at 0.
InitialBoundsZero(width, height) ==
    [min_x |-> 0, min_y |-> 0, max_x |-> 0, max_y |-> 0]

\* Lines 43-44: the bounds before the scan.
InitialBounds(width, height) ==
    [min_x |-> width, min_y |-> height, max_x |-> 0, max_y |-> 0]

\* Lines 66-70
Accumulate(b, x, y) ==
    [min_x |-> Min(b.min_x, x), min_y |-> Min(b.min_y, y),
     max_x |-> Max(b.max_x, x), max_y |-> Max(b.max_y, y)]

RECURSIVE ScanRow(_, _, _, _, _, _)
\* Lines 60-70: the inner loop over x of row y.  The bounds nb after pixel x
\* are a value before the loop goes on with them.
ScanRow(pixels, width, is_light_bg, y, x, b) ==
    IF x >= width THEN b
    ELSE CHOOSE r \in
            {ScanRow(pixels, width, is_light_bg, y, x + 1, nb) :
                nb \in {IF IsContent(pixels[<<x, y>>], is_light_bg)
                        THEN Accumulate(b, x, y) ELSE b}} : TRUE

RECURSIVE ScanRows(_, _, _, _, _, _)
\* Lines 59-70: the outer loop over y.
ScanRows(pixels, width, height, is_light_bg, y, b) ==
    IF y >= height THEN b
    ELSE CHOOSE r \in
            {ScanRows(pixels, width, height, is_light_bg, y + 1, nb) :
                nb \in {ScanRow(pixels, width, is_light_bg, y, 0, b)}} : TRUE

\* Lines 42-70: the bounds of the content of the grayscale pixels.
Scan(pixels, width, height, is_light_bg) ==
    ScanRows(pixels, width, height, is_light_bg, 0, InitialBounds(width, height))

DetectResult(is_light_bg, b) ==
    [is_light_bg |-> is_light_bg,
     min_x |-> b.min_x, min_y |-> b.min_y, max_x |-> b.max_x, max_y |-> b.max_y]

DetectIn(pixels, width, height, is_light_bg) ==
    DetectResult(is_light_bg, Scan(pixels, width, height, is_light_bg))

\* Lines 32-70: polarity and bounds of an RGBA image.
Detect(im) == DetectIn(Gray(im), im.w, im.h, LightBackground(Gray(im), im.w, im.h))

\* A variant that also crops to a rectangle one pixel wide or high.
CropConditionNonStrict(d) == d.max_x >= d.min_x /\ d.max_y >= d.min_y

\* Line 73
CropCondition(d) == d.max_x > d.min_x /\ d.max_y > d.min_y

\* A variant that leaves the "+ 1" of the box out.
CroppedWithoutMaxEdge(im, d) ==
    IF CropCondition(d)
    THEN Crop(im, d.min_x, d.min_y, d.max_x, d.max_y)
    ELSE im

\* Lines 73-76
Cropped(im, d) ==
    IF CropCondition(d)
    THEN Crop(im, d.min_x, d.min_y, d.max_x + 1, d.max_y + 1)
    ELSE im

----------------------------------------------------------------------------
(* Compositing, lines 80-108 *)

TransparentWhite == <<255, 0>>    \* (255, 255, 255, 0)
TransparentBlack == <<0, 0>>      \* (0, 0, 0, 0)
MaskFill == 255

\* Lines 86-90, with the geometry g of lines 82-87
PaddedImage(im, g) ==
    Paste(NewImage(g.new_w, g.new_h, TransparentWhite), im, g.padding_x, g.padding_y)

\* Lines 96-100, with the geometry q of lines 93-98
SquareImage(im, q) ==
    Paste(NewImage(q.max_dim, q.max_dim, TransparentWhite), im, q.paste_x, q.paste_y)

\* Lines 9-12: draw.ellipse((0, 0) + size, fill=255) on a mask of zeros.  The
\* ellipse is the one inscribed in the box with corners (0, 0) and (w, h), both
\* corners included: centre (w/2, h/2), semi-axes w/2 and h/2.  The pixel (x, y)
\* is filled when the point (x, y) is in it (the rasteriser's rounding on the
\* rim is idealised to the exact test).
InEllipse(x, y, w, h) ==
    (2 * x - w) * (2 * x - w) * (h * h) + (2 * y - h) * (2 * y - h) * (w * w)
        <= (w * w) * (h * h)

create_circular_mask(w, h) ==
    [p \in Coords(w, h) |-> IF InEllipse(p[1], p[2], w, h) THEN MaskFill ELSE 0]

\* Line 108: output.putalpha(mask) assigns the mask as the alpha band.
PutAlpha(im, mask) ==
    [im EXCEPT !.px = [p \in Coords(im.w, im.h) |-> <<im.px[p][1], mask[p]>>]]

\* Lines 103-108
Masked(sq) ==
    PutAlpha(Paste(NewImage(sq.w, sq.h, TransparentBlack), sq, 0, 0),
             create_circular_mask(sq.w, sq.h))

----------------------------------------------------------------------------
(* Sizes and artifacts *)

\* A size is the rational num/den: 16 is [num |-> 16, den |-> 1], 1.5 is 3/2.
Size(n) == [num |-> n, den |-> 1]

\* Line 14: the default of the parameter sizes.
DefaultSizes == <<Size(16), Size(32), Size(180), Size(192), Size(512)>>

\* Line 116: output.resize((size, size), LANCZOS) takes positive integers; it
\* raises for every other size (a float is a TypeError, a size below 1 a
\* ValueError).
ResizeAccepts(s) == s.den = 1 /\ s.num >= 1

\* Line 123
favicon_sizes == <<(<<16, 16>>), (<<32, 32>>)>>
IcoLimit == 256
PrimaryBase == "favicon_dark"

Range(seq) == {seq[k] : k \in DOMAIN seq}

\* The name of an output file.
CircularName(base) == [base |-> base, kind |-> "circular", size |-> 0]
SizedName(base, n) == [base |-> base, kind |-> "sized", size |-> n]
IcoName == [base |-> "favicon", kind |-> "ico", size |-> 0]

\* Line 125: first.save('public/favicon.ico', format='ICO', sizes=...,
\* append_images=...).  The ICO encoder writes one frame per requested size and
\* ignores every requested size that is larger than the image save() is called
\* on, or than 256; the appended images only supply the pixels of the frames
\* that are kept.
IcoFrames(first_w, first_h, sizes) ==
    {sz \in Range(sizes) :
        ~(sz[1] > first_w \/ sz[2] > first_h \/ sz[1] > IcoLimit \/ sz[2] > IcoLimit)}

Artifact(name, w, h, frames) == [name |-> name, w |-> w, h |-> h, frames |-> frames]

NoGeo ==
    [is_light_bg |-> FALSE, min_x |-> 0, min_y |-> 0, max_x |-> 0, max_y |-> 0,
     cropped |-> FALSE, w |-> 0, h |-> 0,
     padding_x |-> 0, padding_y |-> 0, new_w |-> 0, new_h |-> 0,
     max_dim |-> 0, paste_x |-> 0, paste_y |-> 0]

NoArgs == [path |-> "", base |-> "", sizes |-> <<>>]

DarkPath == "public/Favicon_dark.png"
LightPath == "public/Favicon_light.png"

----------------------------------------------------------------------------
(* process_favicon *)

\* An exception leaves process_favicon; nothing catches it, so it leaves main
\* too (lines 134, 138) and the run ends.
Raise(kind) ==
    /\ exc' = kind
    /\ pc' = "raised"
    /\ mainpc' = IF mainpc = "none" THEN "none" ELSE "crashed"

\* Lines 23-28
Open ==
    /\ pc = "open"
    /\ IF files[args.path].ok
       THEN /\ img' = ConvertRGBA(files[args.path])
            /\ pc' = "detect"
            /\ UNCHANGED <<exc, mainpc>>
       ELSE /\ Raise("open")
            /\ UNCHANGED img
    /\ UNCHANGED <<files, failWrites, args, content, geo, square, output, i,
                   written, attempted>>

\* Lines 30-108
Normalize ==
    /\ pc = "detect"
    /\ \E d \in {Detect(img)} :
       \E c \in {Cropped(img, d)} :
       \E g \in {Padded(c.w, c.h)} :
       \E p \in {PaddedImage(c, g)} :
       \E q \in {Squared(p.w, p.h)} :
       \E s \in {SquareImage(p, q)} :
           /\ geo' = [is_light_bg |-> d.is_light_bg,
                      min_x |-> d.min_x, min_y |-> d.min_y,
                      max_x |-> d.max_x, max_y |-> d.max_y,
                      cropped |-> CropCondition(d), w |-> c.w, h |-> c.h,
                      padding_x |-> g.padding_x, padding_y |-> g.padding_y,
                      new_w |-> p.w, new_h |-> p.h,
                      max_dim |-> q.max_dim, paste_x |-> q.paste_x, paste_y |-> q.paste_y]
           /\ content' = c
           /\ square' = s
           /\ output' = Masked(s)
    /\ pc' = "save_full"
    /\ UNCHANGED <<files, failWrites, mainpc, args, img, i, written, attempted, exc>>

\* One output.save / resized.save: the write is attempted, and fails when the
\* file cannot be written.
Save(art, nextpc, nexti) ==
    /\ attempted' = attempted \cup {art.name}
    /\ IF art.name \in failWrites
       THEN /\ Raise("save")
            /\ UNCHANGED <<written, i>>
       ELSE /\ written' = Append(written, art)
            /\ pc' = nextpc
            /\ i' = nexti
            /\ UNCHANGED <<exc, mainpc>>

\* Lines 110-112
SaveFull ==
    /\ pc = "save_full"
    /\ Save(Artifact(CircularName(args.base), output.w, output.h, {}), "sizes", 1)
    /\ UNCHANGED <<files, failWrites, args, img, content, geo, square, output>>

\* Lines 115-119, one iteration
SaveSize ==
    /\ pc = "sizes"
    /\ i <= Len(args.sizes)
    /\ LET size == args.sizes[i]
       IN  IF ResizeAccepts(size)
           THEN Save(Artifact(SizedName(args.base, size.num), size.num, size.num, {}),
                     "sizes", i + 1)
           ELSE /\ Raise("resize")
                /\ UNCHANGED <<written, attempted, i>>
    /\ UNCHANGED <<files, failWrites, args, img, content, geo, square, output>>

\* Lines 121-126, after the loop
Finish ==
    /\ pc = "sizes"
    /\ i > Len(args.sizes)
    /\ IF args.base = PrimaryBase
       THEN LET first == favicon_sizes[1]
            IN  Save(Artifact(IcoName, first[1], first[2],
                              IcoFrames(first[1], first[2], favicon_sizes)),
                     "returned", i)
       ELSE /\ pc' = "returned"
            /\ UNCHANGED <<written, attempted, i, exc, mainpc>>
    /\ UNCHANGED <<files, failWrites, args, img, content, geo, square, output>>

----------------------------------------------------------------------------
(* main *)

Call(path, base, sizes) ==
    /\ args' = [path |-> path, base |-> base, sizes |-> sizes]
    /\ pc' = "open"
    /\ attempted' = {}
    /\ UNCHANGED <<files, failWrites, img, content, geo, square, output, i, written, exc>>

\* Line 134
MainDark ==
    /\ mainpc = "dark"
    /\ pc = "idle"
    /\ mainpc' = "in_dark"
    /\ Call(DarkPath, "favicon_dark", DefaultSizes)

\* Line 138
MainLight ==
    /\ mainpc = "in_dark"
    /\ pc = "returned"
    /\ mainpc' = "in_light"
    /\ Call(LightPath, "favicon_light", DefaultSizes)

\* Lines 140-151
MainDone ==
    /\ mainpc = "in_light"
    /\ pc = "returned"
    /\ mainpc' = "done"
    /\ pc' = "idle"
    /\ UNCHANGED <<files, failWrites, args, img, content, geo, square, output, i,
                   written, attempted, exc>>

NextCall == Open \/ Normalize \/ SaveFull \/ SaveSize \/ Finish

Next == MainDark \/ MainLight \/ MainDone \/ NextCall

----------------------------------------------------------------------------
(* The padding and squaring steps on the size of an image alone *)

\* Lines 80-90
ApplyPad ==
    /\ pc = "pad"
    /\ \E g \in {Padded(geo.w, geo.h)} :
           geo' = [geo EXCEPT !.padding_x = g.padding_x, !.padding_y = g.padding_y,
                              !.new_w = g.new_w, !.new_h = g.new_h]
    /\ pc' = "square"
    /\ UNCHANGED <<files, failWrites, mainpc, args, img, content, square, output, i,
                   written, attempted, exc>>

\* Lines 92-100
ApplySquare ==
    /\ pc = "square"
    /\ \E q \in {Squared(geo.new_w, geo.new_h)} :
           geo' = [geo EXCEPT !.max_dim = q.max_dim, !.paste_x = q.paste_x,
                              !.paste_y = q.paste_y]
    /\ pc' = "mask"
    /\ UNCHANGED <<files, failWrites, mainpc, args, img, content, square, output, i,
                   written, attempted, exc>>

NextGeom == ApplyPad \/ ApplySquare

NextNormalize == Open \/ Normalize

----------------------------------------------------------------------------
(* Initial states *)

Paths == {DarkPath, LightPath}
Bases == {"favicon_dark", "favicon_light"}

Unreadable == [ok |-> FALSE, mode |-> "", w |-> 0, h |-> 0, px |-> <<>>]

File(mode, w, h, px) == [ok |-> TRUE, mode |-> mode, w |-> w, h |-> h, px |-> px]

\* Two sample inputs of a run: a dark 2x1 image without alpha, and a light 2x2
\* RGBA image with one dark, half-transparent pixel.
SampleDark == File("RGB", 2, 1, [p \in Coords(2, 1) |-> IF p[1] = 0 THEN <<120>> ELSE <<10>>])
SampleLight ==
    File("RGBA", 2, 2, [p \in Coords(2, 2) |-> IF p = <<1, 1>> THEN <<30, 128>> ELSE <<255, 255>>])

FileChoices == {Unreadable, SampleDark, SampleLight}

\* Size lists of a direct call: the default, and lists with a size that is not
\* positive or not an integer.
SizeLists ==
    {DefaultSizes, <<>>, <<Size(16)>>, <<Size(32), Size(16)>>, <<Size(0)>>,
     <<Size(16), Size(-1)>>, <<Size(16), [num |-> 3, den |-> 2], Size(32)>>}

WriteNames ==
    {CircularName(b) : b \in Bases}
        \cup {SizedName(b, sz.num) : b \in Bases, sz \in Range(DefaultSizes)}
        \cup {IcoName}

NothingYet ==
    /\ img = NoImage
    /\ content = NoImage
    /\ geo = NoGeo
    /\ square = NoImage
    /\ output = NoImage
    /\ i = 0
    /\ written = <<>>
    /\ attempted = {}
    /\ exc = "none"

\* A run of main, or one call of process_favicon, on a file system whose inputs
\* may be unreadable and on which at most one output cannot be written.
Init ==
    /\ files \in [Paths -> FileChoices]
    /\ failWrites \in {{}} \cup {{n} : n \in WriteNames}
    /\ \/ /\ mainpc = "dark"
          /\ pc = "idle"
          /\ args = NoArgs
       \/ /\ mainpc = "none"
          /\ pc = "open"
          /\ args \in [path : Paths, base : Bases, sizes : SizeLists]
    /\ NothingYet

OneCall(file) ==
    /\ files = [p \in Paths |-> IF p = DarkPath THEN file ELSE Unreadable]
    /\ failWrites = {}
    /\ mainpc = "none"
    /\ pc = "open"
    /\ args = [path |-> DarkPath, base |-> "favicon_dark", sizes |-> DefaultSizes]
    /\ NothingYet

ScanLums == {50, 51, 249, 250}
ScanAlphas == {0, 128}

\* process_favicon on every image of at most MaxW x MaxH (and MaxCells) pixels
\* that has at most two pixel values.
InitScan ==
    \E w \in 1..MaxW, h \in 1..MaxH :
        /\ w * h <= MaxCells
        /\ \E shape \in SUBSET Coords(w, h), la \in ScanLums, lb \in ScanLums :
            \/ OneCall(File("RGB", w, h,
                            [p \in Coords(w, h) |-> IF p \in shape THEN <<lb>> ELSE <<la>>]))
            \/ \E aa \in ScanAlphas, ab \in ScanAlphas :
                  OneCall(File("RGBA", w, h,
                               [p \in Coords(w, h) |->
                                   IF p \in shape THEN <<lb, ab>> ELSE <<la, aa>>]))

UniformLums == {0, 50, 51, 128, 200, 201, 249, 250, 255}

\* process_favicon on every image of one pixel value, of up to MaxUniform pixels
\* a side and MaxPixels pixels in all.
InitUniform ==
    \E w \in 1..MaxUniform, h \in 1..MaxUniform, l \in UniformLums :
        /\ w * h <= MaxPixels
        /\ OneCall(File("RGB", w, h, [p \in Coords(w, h) |-> <<l>>]))

\* An image of any size up to MaxDim x MaxDim enters the padding step.
InitGeom ==
    /\ \E w \in 1..MaxDim, h \in 1..MaxDim : geo = [NoGeo EXCEPT !.w = w, !.h = h]
    /\ files = [p \in Paths |-> Unreadable]
    /\ failWrites = {}
    /\ mainpc = "none"
    /\ pc = "pad"
    /\ args = NoArgs
    /\ img = NoImage /\ content = NoImage /\ square = NoImage /\ output = NoImage
    /\ i = 0 /\ written = <<>> /\ attempted = {} /\ exc = "none"

Spec == Init /\ [][Next]_vars
SpecScan == InitScan /\ [][NextNormalize]_vars
SpecUniform == InitUniform /\ [][NextNormalize]_vars
SpecGeom == InitGeom /\ [][NextGeom]_vars

----------------------------------------------------------------------------
(* What the properties below speak of, defined on the image itself *)

AfterNormalize == pc = "save_full"

Lum(im, p) == im.px[p][1]
Alpha(im, p) == im.px[p][2]

RECURSIVE SetSum(_, _)
SetSum(im, ps) ==
    IF ps = {} THEN 0
    ELSE LET p == CHOOSE q \in ps : TRUE
         IN  Lum(im, p) + SetSum(im, ps \ {p})

\* The mean luminance of im is above 200.
MeanAboveSplit(im) == SetSum(im, Coords(im.w, im.h)) > 200 * Cardinality(Coords(im.w, im.h))

\* The foreground of im: on a light background the pixels darker than 250, on a
\* dark one the pixels lighter than 50.
Foreground(im) ==
    {p \in Coords(im.w, im.h) :
        IF MeanAboveSplit(im) THEN Lum(im, p) < 250 ELSE Lum(im, p) > 50}

Least(S) == CHOOSE v \in S : \A u \in S : v <= u
Greatest(S) == CHOOSE v \in S : \A u \in S : v >= u

Xs(ps) == {p[1] : p \in ps}
Ys(ps) == {p[2] : p \in ps}

\* Two pixels are neighbours when they share an edge; a set of pixels is
\* contiguous when every split of it into two parts has neighbours across.
Neighbours(p, q) ==
    \/ p[1] = q[1] /\ (p[2] = q[2] + 1 \/ q[2] = p[2] + 1)
    \/ p[2] = q[2] /\ (p[1] = q[1] + 1 \/ q[1] = p[1] + 1)

Contiguous(ps) ==
    /\ ps # {}
    /\ \A part \in SUBSET ps :
          (part # {} /\ part # ps) => \E p \in part, q \in ps \ part : Neighbours(p, q)

FloorPercent(n) == (3 * n) \div 100

----------------------------------------------------------------------------
(* C5 *)

\* C5: for an image of mean luminance above 200 that contains a contiguous shape
\* of pixels darker than 250 (all other pixels being 250 or lighter), the bounds
\* the scan accumulates are the inclusive bounding box of the shape.
C5_LightBoundsAreBoundingBox ==
    (/\ AfterNormalize
     /\ MeanAboveSplit(img)
     /\ Contiguous(Foreground(img)))
        => /\ geo.is_light_bg
           /\ geo.min_x = Least(Xs(Foreground(img)))
           /\ geo.max_x = Greatest(Xs(Foreground(img)))
           /\ geo.min_y = Least(Ys(Foreground(img)))
           /\ geo.max_y = Greatest(Ys(Foreground(img)))

\* A light 3x3 image whose shape is two pixels in the last column, away from
\* row 0 and column 0, has been scanned.
C5_Witness ==
    /\ AfterNormalize
    /\ img.w = 3 /\ img.h = 3
    /\ MeanAboveSplit(img)
    /\ Foreground(img) = {<<2, 1>>, <<2, 2>>}
    /\ geo.min_x = 2 /\ geo.max_x = 2 /\ geo.min_y = 1 /\ geo.max_y = 2

----------------------------------------------------------------------------
(* C8 *)

HasExtent(ps) ==
    /\ ps # {}
    /\ Greatest(Xs(ps)) > Least(Xs(ps))
    /\ Greatest(Ys(ps)) > Least(Ys(ps))

----------------------------------------------------------------------------
(* C9 *)

\* C9: the padded canvas is W + 2*floor(0.03*W) by H + 2*floor(0.03*H), the image
\* sits at (floor(0.03*W), floor(0.03*H)) with as much padding after it as
\* before it, and a side below 34 gets no padding.
C9_PaddingInvariant ==
    pc \in {"square", "mask"} =>
        /\ geo.new_w = geo.w + 2 * FloorPercent(geo.w)
        /\ geo.new_h = geo.h + 2 * FloorPercent(geo.h)
        /\ geo.padding_x = FloorPercent(geo.w)
        /\ geo.padding_y = FloorPercent(geo.h)
        /\ geo.new_w - (geo.padding_x + geo.w) = geo.padding_x
        /\ geo.new_h - (geo.padding_y + geo.h) = geo.padding_y
        /\ geo.w < 34 => geo.padding_x = 0
        /\ geo.h < 34 => geo.padding_y = 0

\* A 67x33 image has been padded by 2 pixels left and right and by none above
\* and below.
C9_Witness ==
    /\ pc = "square"
    /\ geo.w = 67 /\ geo.h = 33
    /\ geo.padding_x = 2 /\ geo.padding_y = 0
    /\ geo.new_w = 71 /\ geo.new_h = 33

----------------------------------------------------------------------------
(* C10 *)

\* C10: the square side is the larger padded dimension; on each axis the margins
\* before and after the image add up to the difference, differ by at most 1 and
\* the one before is never the larger; the longer axis has no margin.
C10_SquaringInvariant ==
    pc = "mask" =>
        LET left == geo.paste_x
            right == geo.max_dim - geo.new_w - geo.paste_x
            top == geo.paste_y
            bottom == geo.max_dim - geo.new_h - geo.paste_y
        IN  /\ geo.max_dim >= geo.new_w /\ geo.max_dim >= geo.new_h
            /\ geo.max_dim = geo.new_w \/ geo.max_dim = geo.new_h
            /\ left >= 0 /\ top >= 0
            /\ left + right = geo.max_dim - geo.new_w
            /\ top + bottom = geo.max_dim - geo.new_h
            /\ left <= right /\ right - left <= 1
            /\ top <= bottom /\ bottom - top <= 1
            /\ geo.new_w >= geo.new_h => left = 0 /\ right = 0
            /\ geo.new_h >= geo.new_w => top = 0 /\ bottom = 0

\* A padded image of 10x7 has been centred on a 10x10 canvas, 1 pixel above it
\* and 2 below.
C10_Witness ==
    /\ pc = "mask"
    /\ geo.new_w = 10 /\ geo.new_h = 7
    /\ geo.max_dim = 10
    /\ geo.paste_x = 0 /\ geo.paste_y = 1

----------------------------------------------------------------------------
(* C6 *)

Uniform(im) == \A p \in Coords(im.w, im.h), q \in Coords(im.w, im.h) : im.px[p] = im.px[q]

SquareSideOf(w, h) == Max(w + 2 * FloorPercent(w), h + 2 * FloorPercent(h))

\* C6 as stated: for an image of identical pixels no crop is applied, the image
\* that enters the padding step has the original size, and the canvas has side
\* max(W + 2*floor(0.03*W), H + 2*floor(0.03*H)), never zero.
C6_UniformNoCrop ==
    (AfterNormalize /\ Uniform(img)) =>
        /\ ~geo.cropped
        /\ content.w = img.w /\ content.h = img.h
        /\ output.w = SquareSideOf(img.w, img.h) /\ output.h = output.w
        /\ output.w > 0

\* C6 as amended: for an image of identical pixels the crop is either skipped or
\* applied with the rectangle of the whole image (the latter exactly when the
\* luminance is 51..249 and W, H >= 2), so the image that enters the padding
\* step is the original one, and the canvas has side
\* max(W + 2*floor(0.03*W), H + 2*floor(0.03*H)), never zero.
C6_UniformUnchanged ==
    (AfterNormalize /\ Uniform(img)) =>
        /\ geo.cropped <=>
              /\ Lum(img, <<0, 0>>) >= 51 /\ Lum(img, <<0, 0>>) <= 249
              /\ img.w >= 2 /\ img.h >= 2
        /\ geo.cropped =>
              /\ geo.min_x = 0 /\ geo.min_y = 0
              /\ geo.max_x = img.w - 1 /\ geo.max_y = img.h - 1
        /\ content = img
        /\ geo.max_dim = SquareSideOf(img.w, img.h)
        /\ output.w = SquareSideOf(img.w, img.h) /\ output.h = output.w
        /\ output.w > 0

\* A uniform mid-grey 36x2 image was cropped with its own rectangle, padded by
\* one pixel left and right, and set on a 38x38 canvas.
C6_Witness ==
    /\ AfterNormalize
    /\ Uniform(img)
    /\ img.w = 36 /\ img.h = 2
    /\ Lum(img, <<0, 0>>) = 128
    /\ geo.cropped
    /\ geo.padding_x = 1
    /\ output.w = 38

----------------------------------------------------------------------------
(* C7 *)

\* The pixel (x, y) of a canvas of side S is farther than S/2 from the centre
\* (S/2, S/2), or nearer.
BeyondCircle(p, S) == (2 * p[1] - S) * (2 * p[1] - S) + (2 * p[2] - S) * (2 * p[2] - S) > S * S
WithinCircle(p, S) == (2 * p[1] - S) * (2 * p[1] - S) + (2 * p[2] - S) * (2 * p[2] - S) < S * S

\* C7: in the output of side S every pixel farther than S/2 from the centre has
\* alpha 0 whatever its alpha was, and every pixel strictly inside the circle
\* keeps the alpha it had on the squared canvas.
C7_MaskKeepsInnerAlpha ==
    AfterNormalize =>
        \A p \in Coords(output.w, output.h) :
            /\ BeyondCircle(p, output.w) => Alpha(output, p) = 0
            /\ WithinCircle(p, output.w) => Alpha(output, p) = Alpha(square, p)

----------------------------------------------------------------------------
(* C1, C2, C3, C4 *)

InvalidSizes(sizes) == \E k \in DOMAIN sizes : ~ResizeAccepts(sizes[k])

\* The names of the full output set of one input.
FullSet(base, sizes) ==
    {CircularName(base)} \cup {SizedName(base, sizes[k].num) : k \in DOMAIN sizes}

\* The names of everything process_favicon is to write for one input.
ExpectedNames(base, sizes) ==
    FullSet(base, sizes) \cup (IF base = PrimaryBase THEN {IcoName} ELSE {})

WrittenNames == {written[k].name : k \in DOMAIN written}

\* C1: when the first input of a run is unreadable and the second is valid, the
\* run reports the decode error, writes nothing for the first input and still
\* writes the full output set of the second.
C1_SecondInputSurvives ==
    (/\ mainpc \in {"done", "crashed"}
     /\ ~files[DarkPath].ok
     /\ files[LightPath].ok
     /\ failWrites = {})
        => /\ exc = "open"
           /\ \A n \in WrittenNames : n.base # "favicon_dark" /\ n # IcoName
           /\ FullSet("favicon_light", DefaultSizes) \subseteq WrittenNames

\* C2: when the call for one readable input has ended, every artifact of that
\* input was attempted, whichever write failed, and a failed write was reported.
C2_SiblingsAttempted ==
    (/\ pc \in {"returned", "raised"}
     /\ files[args.path].ok
     /\ ~InvalidSizes(args.sizes))
        => /\ ExpectedNames(args.base, args.sizes) \subseteq attempted
           /\ (attempted \cap failWrites # {}) => exc = "save"

\* C3: a call with an invalid size list fails before any work: nothing has been
\* written when the call has ended, and it has ended with a failure.
C3_InvalidSizesFailFirst ==
    (/\ mainpc = "none"
     /\ InvalidSizes(args.sizes)
     /\ pc \in {"returned", "raised"})
        => /\ pc = "raised"
           /\ written = <<>>

\* C4: a successfully processed input has written exactly the full-size
\* artifact, one artifact per size, and the bundle if and only if it is the
\* primary; a completed run has written the bundle exactly once; the bundle
\* holds exactly the 16x16 and the 32x32 rendition.
C4_ArtifactSet ==
    /\ pc = "returned" => attempted = ExpectedNames(args.base, args.sizes)
    /\ pc = "returned" => attempted \subseteq WrittenNames
    /\ mainpc = "done" => Cardinality({k \in DOMAIN written : written[k].name = IcoName}) = 1
    /\ \A k \in DOMAIN written :
          written[k].name = IcoName => written[k].frames = {<<16, 16>>, <<32, 32>>}

====
